---- MODULE Spec2Model ----
(***************************************************************************)
(* The rollkit block header (types/header.go): its accessors, structural   *)
(* validation (ValidateBasic / Validate), trust-continuity verification    *)
(* (Verify) and the CometBFT precommit-vote encoding (MakeCometBFTVote).   *)
(*                                                                         *)
(* Header values live in a heap `mem` (a sequence of Headers addressed by  *)
(* pointer 1..Len(mem); pointer 0 is nil; `allocs` counts the Headers New  *)
(* allocated).  Callers (`calls`) invoke the methods through pointers; a   *)
(* method call is a Call step followed by the method's Return step.  A     *)
(* header-sync loop (`trusted`, `cand`, `pc`) drives ValidateBasic and     *)
(* Verify over a feed of candidate headers.                                *)
(*                                                                         *)
(* uint64 / int64 are modelled WordBits wide (two's complement), so that   *)
(* the conversions int64(uint64) keep their wrap-around.                   *)
(***************************************************************************)
EXTENDS Integers, Sequences, FiniteSets, TLC

VARIABLES mem, allocs, calls, trusted, genesis, cand, pc

vars == <<mem, allocs, calls, trusted, genesis, cand, pc>>
callVars == <<mem, allocs, calls>>
syncVars == <<trusted, genesis, cand, pc>>

(***************************************************************************)
(* Bounds of the model.                                                    *)
(***************************************************************************)
\* width in bits of the model's uint64 / int64
WordBits == 4
\* longest ProposerAddress drawn as an input
MaxAddrLen == 2
\* most Headers New allocates in one run
MaxNew == 1

Word == 2 ^ WordBits
HalfWord == 2 ^ (WordBits - 1)
\* the values of a uint64
Uint64 == 0 .. (Word - 1)

(***************************************************************************)
(* Byte slices ([]byte, header.Hash): a Go slice is nil or a sequence of   *)
(* bytes; nil and the empty slice are different values of length 0.        *)
(***************************************************************************)
NilSlice == [isNil |-> TRUE, b |-> << >>]
Slice(s) == [isNil |-> FALSE, b |-> s]

\* len(s)
len(s) == Len(s.b)

\* bytes.Equal(a, b): same length and same bytes; nil equals empty
BytesEqual(a, b) == a.b = b.b

HexDigits == <<"0", "1", "2", "3", "4", "5", "6", "7",
               "8", "9", "A", "B", "C", "D", "E", "F">>

RECURSIVE FmtHexSeq(_)
FmtHexSeq(s) ==
    IF s = << >> THEN << >>
    ELSE <<HexDigits[(Head(s) \div 16) + 1], HexDigits[(Head(s) % 16) + 1]>>
         \o FmtHexSeq(Tail(s))

\* fmt's %X verb on a []byte: two upper-case hex digits per byte, nothing
\* for a nil or empty slice
FmtX(s) == FmtHexSeq(s.b)

(***************************************************************************)
(* The Header aggregate.                                                   *)
(***************************************************************************)
\* Header{BaseHeader{Height, Time, ChainID}, Version, the seven hashes
\* (hs[1..7] in declaration order), ProposerAddress}
MkHeader(ht, tm, cid, ver, hs, addr) ==
    [BaseHeader      |-> [Height |-> ht, Time |-> tm, ChainID |-> cid],
     Version         |-> ver,
     LastHeaderHash  |-> hs[1],
     LastCommitHash  |-> hs[2],
     DataHash        |-> hs[3],
     ConsensusHash   |-> hs[4],
     AppHash         |-> hs[5],
     ValidatorHash   |-> hs[6],
     LastResultsHash |-> hs[7],
     ProposerAddress |-> addr]

ZeroVersion == [Block |-> 0, App |-> 0]

\* new(Header): every field at its zero value
ZeroHeader ==
    MkHeader(0, 0, "", ZeroVersion, [i \in 1..7 |-> NilSlice], NilSlice)

\* the nil *Header
NilPtr == 0

(***************************************************************************)
(* Errors.                                                                 *)
(***************************************************************************)
\* the nil error
NoError == [kind |-> "nil", reason |-> << >>]

\* the sentinel returned by ValidateBasic
ErrNoProposerAddress == [kind |-> "ErrNoProposerAddress", reason |-> << >>]

\* &header.VerifyError{Reason: fmt.Errorf("expected proposer (%X) got (%X)", e, g)}
\* The message is a sequence of tokens: the literal pieces of the format
\* string and, for each %X, the hex digits it prints.
VerifyError(e, g) ==
    [kind   |-> "VerifyError",
     reason |-> <<"expected proposer (">> \o FmtX(e) \o <<") got (">>
                \o FmtX(g) \o <<")">>]

(***************************************************************************)
(* Lifecycle and accessors.                                                *)
(***************************************************************************)
\* func (h *Header) IsZero() bool { return h == nil }
IsZero(p) == p = NilPtr

\* func (h *Header) ChainID() string
ChainID(h) == h.BaseHeader.ChainID

\* func (h *Header) Height() uint64
Height(h) == h.BaseHeader.Height

\* func (h *Header) LastHeader() Hash { return h.LastHeaderHash[:] }
LastHeader(h) == h.LastHeaderHash

\* int64(x) of a uint64 x: the same bits read as two's complement
Int64(x) == IF x >= HalfWord THEN x - Word ELSE x

NanosPerSec == 1000000000

\* Go's integer division truncates toward zero
TruncDiv(a, b) == IF a >= 0 THEN a \div b ELSE -((-a) \div b)

\* time.Unix(sec, nsec): the instant sec seconds and nsec nanoseconds after
\* the Unix epoch, normalised to 0 <= nsec < 1e9
Unix(sec, nsec) ==
    IF nsec < 0 \/ nsec >= NanosPerSec
    THEN LET n  == TruncDiv(nsec, NanosPerSec)
             s1 == sec + n
             n1 == nsec - n * NanosPerSec
         IN  IF n1 < 0 THEN [sec |-> s1 - 1, nsec |-> n1 + NanosPerSec]
                       ELSE [sec |-> s1, nsec |-> n1]
    ELSE [sec |-> sec, nsec |-> nsec]

\* a bug: the nanosecond count passed as seconds
Time_Seconds(h) == Unix(Int64(h.BaseHeader.Time), 0)

\* func (h *Header) Time() time.Time { return time.Unix(0, int64(h.BaseHeader.Time)) }
Time(h) == Unix(0, Int64(h.BaseHeader.Time))

(***************************************************************************)
(* Validation.                                                             *)
(***************************************************************************)
\* a bug: only a nil address is rejected, an empty one passes
ValidateBasic_NilOnly(h) ==
    IF h.ProposerAddress.isNil THEN ErrNoProposerAddress ELSE NoError

\* func (h *Header) ValidateBasic() error
ValidateBasic(h) ==
    IF len(h.ProposerAddress) = 0 THEN ErrNoProposerAddress ELSE NoError

\* a bug: Validate accepts everything
Validate_Accept(h) == NoError

\* func (h *Header) Validate() error { return h.ValidateBasic() }
Validate(h) == ValidateBasic(h)

\* a bug: only the address lengths are compared
Verify_LenOnly(h, untrstH) ==
    IF len(untrstH.ProposerAddress) # len(h.ProposerAddress)
    THEN VerifyError(h.ProposerAddress, untrstH.ProposerAddress)
    ELSE NoError

\* a bug: the two addresses swapped in the message
Verify_Swapped(h, untrstH) ==
    IF ~BytesEqual(untrstH.ProposerAddress, h.ProposerAddress)
    THEN VerifyError(untrstH.ProposerAddress, h.ProposerAddress)
    ELSE NoError

\* a bug: bytes.HasPrefix in place of bytes.Equal
Verify_Prefix(h, untrstH) ==
    IF ~(/\ len(untrstH.ProposerAddress) <= len(h.ProposerAddress)
         /\ SubSeq(h.ProposerAddress.b, 1, len(untrstH.ProposerAddress))
                = untrstH.ProposerAddress.b)
    THEN VerifyError(h.ProposerAddress, untrstH.ProposerAddress)
    ELSE NoError

\* func (h *Header) Verify(untrstH *Header) error
Verify(h, untrstH) ==
    IF ~BytesEqual(untrstH.ProposerAddress, h.ProposerAddress)
    THEN VerifyError(h.ProposerAddress, untrstH.ProposerAddress)
    ELSE NoError

(***************************************************************************)
(* Content hash and vote encoding.                                         *)
(***************************************************************************)
\* the chain identifiers drawn as inputs ("" is the zero value)
ChainIDs == <<"", "rollkit-test">>

StrCode(c) == CHOOSE i \in 1..Len(ChainIDs) : ChainIDs[i] = c

\* a byte slice in the canonical serialisation: its length, then its bytes
EncSlice(s) == <<Len(s.b)>> \o s.b

\* the Header's fields in declaration order, as the digest reads them
Serialise(h) ==
    <<h.BaseHeader.Height, h.BaseHeader.Time, StrCode(h.BaseHeader.ChainID),
      h.Version.Block, h.Version.App>>
    \o EncSlice(h.LastHeaderHash) \o EncSlice(h.LastCommitHash)
    \o EncSlice(h.DataHash) \o EncSlice(h.ConsensusHash)
    \o EncSlice(h.AppHash) \o EncSlice(h.ValidatorHash)
    \o EncSlice(h.LastResultsHash) \o EncSlice(h.ProposerAddress)

\* the length in bytes of a Hash
HashSize == 32

RECURSIVE Checksum(_)
Checksum(s) == IF s = << >> THEN 0 ELSE (Head(s) + Checksum(Tail(s))) % 256

\* func (h *Header) Hash() Hash: an opaque deterministic digest of all the
\* Header's fields, HashSize bytes long.  Nothing but determinism and the
\* length is taken from it: the digest is a checksum of the serialised
\* fields, and distinct Headers may share it.
Hash(h) ==
    LET ck == Checksum(Serialise(h))
    IN  Slice([i \in 1..HashSize |-> (ck + i) % 256])

\* cmtproto.PrecommitType
PrecommitType == 2

\* cmtproto.PartSetHeader{}
ZeroPartSetHeader == [Total |-> 0, Hash |-> NilSlice]

\* a bug: the validator address left out of the vote
MakeVote_NoValidator(h) ==
    [Type             |-> PrecommitType,
     Height           |-> Int64(Height(h)),
     Round            |-> 0,
     BlockID          |-> [Hash |-> Hash(h),
                           PartSetHeader |-> ZeroPartSetHeader],
     Timestamp        |-> Time(h),
     ValidatorAddress |-> NilSlice,
     ValidatorIndex   |-> 0]

\* the cmtproto.Vote literal built by MakeCometBFTVote
MakeVote(h) ==
    [Type             |-> PrecommitType,
     Height           |-> Int64(Height(h)),
     Round            |-> 0,
     BlockID          |-> [Hash |-> Hash(h),
                           PartSetHeader |-> ZeroPartSetHeader],
     Timestamp        |-> Time(h),
     ValidatorAddress |-> h.ProposerAddress,
     ValidatorIndex   |-> 0]

\* cmtypes.VoteSignBytes(chainID, vote): an injective deterministic
\* encoding of the chain id and of every field of the vote, field by field
VoteSignBytes(chainID, vote) ==
    <<chainID, vote.Type, vote.Height, vote.Round,
      vote.BlockID.Hash.b, vote.BlockID.PartSetHeader.Total,
      vote.BlockID.PartSetHeader.Hash.b,
      vote.Timestamp.sec, vote.Timestamp.nsec,
      vote.ValidatorAddress.b, vote.ValidatorIndex>>

\* func (h *Header) MakeCometBFTVote() []byte, with the vote it encodes
MakeCometBFTVote(h) ==
    LET vote    == MakeVote(h)
        chainID == ChainID(h)
    IN  [vote |-> vote, signBytes |-> VoteSignBytes(chainID, vote)]

(***************************************************************************)
(* Inputs: the Header values the callers are given.                        *)
(***************************************************************************)
ByteVals == {10, 171}

\* nil, empty, and every address of 1..MaxAddrLen bytes
Addrs ==
    {NilSlice} \cup
    {Slice(s) : s \in UNION {[1..k -> ByteVals] : k \in 0..MaxAddrLen}}

HashA == Slice(<<10>>)
HashB == Slice(<<171, 10>>)

\* the seven hashes: all nil, all empty, all equal, or one differing
HashProfiles ==
    {[i \in 1..7 |-> NilSlice], [i \in 1..7 |-> Slice(<< >>)],
     [i \in 1..7 |-> HashA]} \cup
    {[i \in 1..7 |-> IF i = k THEN HashB ELSE HashA] : k \in 1..7}

Versions == {ZeroVersion, [Block |-> 1, App |-> 2]}

ChainIDSet == {ChainIDs[i] : i \in 1..Len(ChainIDs)}

\* the edges of the unsigned and of the signed range
EdgeWords == {0, 1, HalfWord - 1, HalfWord, Word - 1}

BaseHashes == [i \in 1..7 |-> HashA]

\* every Height with the edge Times and every Time with the edge Heights,
\* the other fields fixed
IntHeaders ==
    {MkHeader(ht, tm, ChainIDs[2], ZeroVersion, BaseHashes, Slice(<<171>>)) :
        ht \in Uint64, tm \in EdgeWords} \cup
    {MkHeader(ht, tm, ChainIDs[2], ZeroVersion, BaseHashes, Slice(<<171>>)) :
        ht \in EdgeWords, tm \in Uint64}

\* every address with every hash profile, and with every chain id and
\* version, Height and Time fixed
FieldHeaders ==
    {MkHeader(1, 1, ChainIDs[2], ZeroVersion, p, a) :
        p \in HashProfiles, a \in Addrs} \cup
    {MkHeader(1, 1, c, v, BaseHashes, a) :
        c \in ChainIDSet, v \in Versions, a \in Addrs}

Headers == IntHeaders \cup FieldHeaders

\* a trusted header of height 2
TrustedOf(a) == MkHeader(2, 2, ChainIDs[2], ZeroVersion, BaseHashes, a)

\* a candidate of height and time ht, linked to header t
\* (LastHeaderHash = t.Hash()) or not
CandidateOf(t, ht, linked, a) ==
    MkHeader(ht, ht, ChainIDs[2], ZeroVersion,
             [i \in 1..7 |-> IF i = 1 /\ linked THEN Hash(t) ELSE HashA], a)

\* the candidate's height against the trusted header's, and its link:
\* lower or equal and unlinked, higher and linked
Continuations == {<<1, FALSE>>, <<2, FALSE>>, <<3, TRUE>>}

\* a trusted header and a candidate: every pair of addresses for the linked
\* candidate above the trusted header, every pair of byte-equal addresses
\* for the others
HeaderPairs ==
    {<<TrustedOf(a1), CandidateOf(TrustedOf(a1), k[1], k[2], a2)>> :
        a1 \in Addrs, a2 \in Addrs, k \in {<<3, TRUE>>}} \cup
    {<<TrustedOf(a[1]), CandidateOf(TrustedOf(a[1]), k[1], k[2], a[2])>> :
        a \in {x \in Addrs \X Addrs : x[1].b = x[2].b},
        k \in Continuations}

\* the heaps of the sequential specification
Heaps == {<<h>> : h \in Headers} \cup HeaderPairs

\* the heap of the concurrent specification: a trusted header and a linked
\* candidate of another proposer
ConcHeaps ==
    {<<TrustedOf(Slice(<<171>>)),
       CandidateOf(TrustedOf(Slice(<<171>>)), 3, TRUE, Slice(<<10>>))>>}

\* the Headers given to the vote encoder: around one Header, every edge
\* Height, every edge Time, every address, every hash profile
VoteBase == MkHeader(1, 1, ChainIDs[2], ZeroVersion, BaseHashes, Slice(<<171>>))

VoteHeaders ==
    {[VoteBase EXCEPT !.BaseHeader.Height = x] : x \in EdgeWords} \cup
    {[VoteBase EXCEPT !.BaseHeader.Time = x] : x \in EdgeWords} \cup
    {[VoteBase EXCEPT !.ProposerAddress = a] : a \in Addrs} \cup
    {MkHeader(1, 1, ChainIDs[2], ZeroVersion, p, Slice(<<171>>)) :
        p \in HashProfiles}

\* the heaps of the vote specification
VoteHeaps == {<<g, h>> : g \in VoteHeaders, h \in VoteHeaders}

\* the callers of the concurrent specification
Threads == {1, 2}

(***************************************************************************)
(* Method calls.                                                           *)
(***************************************************************************)
Ops == {"New", "IsZero", "ChainID", "Height", "LastHeader", "Time",
        "Verify", "Validate", "ValidateBasic", "MakeCometBFTVote"}

\* the methods that never dereference their receiver
NilSafe == {"New", "IsZero"}

Idle == [st |-> "idle", op |-> "none", rcv |-> NilPtr, arg |-> NilPtr,
         h |-> ZeroHeader, u |-> ZeroHeader, conc |-> FALSE,
         err |-> NoError, val |-> 0]

Deref(p) == IF p = NilPtr THEN ZeroHeader ELSE mem[p]

\* A caller invokes method op through receiver pointer p (and, for Verify,
\* argument pointer q); the record keeps the Header values at the call, and
\* whether another caller's call was in progress then.
CallOf(t, ops) ==
    /\ calls[t].st \in {"idle", "done"}
    /\ \E op \in ops, p \in 0..Len(mem), q \in 0..Len(mem) :
          /\ op \notin NilSafe => p # NilPtr
          /\ IF op = "Verify" THEN q # NilPtr ELSE q = NilPtr
          /\ calls' = [calls EXCEPT ![t] =
                 [st |-> "running", op |-> op, rcv |-> p, arg |-> q,
                  h |-> Deref(p), u |-> Deref(q),
                  conc |-> \E o \in DOMAIN calls \ {t} :
                               calls[o].st = "running",
                  err |-> NoError, val |-> 0]]
    /\ UNCHANGED <<mem, allocs>>
    /\ UNCHANGED syncVars

\* a call of any method
Call(t) == CallOf(t, Ops)

\* a call of the vote encoder
CallVote(t) == CallOf(t, {"MakeCometBFTVote"})

Running(t, op) == calls[t].st = "running" /\ calls[t].op = op

Done(t, e, v) ==
    calls' = [calls EXCEPT ![t].st = "done", ![t].err = e, ![t].val = v]

\* New allocates a zero Header and returns the pointer to it
RetNew(t) ==
    /\ Running(t, "New")
    /\ allocs < MaxNew
    /\ allocs' = allocs + 1
    /\ mem' = Append(mem, ZeroHeader)
    /\ Done(t, NoError, Len(mem) + 1)
    /\ UNCHANGED syncVars

RetIsZero(t) ==
    /\ Running(t, "IsZero")
    /\ Done(t, NoError, IsZero(calls[t].rcv))
    /\ UNCHANGED <<mem, allocs>>
    /\ UNCHANGED syncVars

RetChainID(t) ==
    /\ Running(t, "ChainID")
    /\ Done(t, NoError, ChainID(mem[calls[t].rcv]))
    /\ UNCHANGED <<mem, allocs>>
    /\ UNCHANGED syncVars

RetHeight(t) ==
    /\ Running(t, "Height")
    /\ Done(t, NoError, Height(mem[calls[t].rcv]))
    /\ UNCHANGED <<mem, allocs>>
    /\ UNCHANGED syncVars

RetLastHeader(t) ==
    /\ Running(t, "LastHeader")
    /\ Done(t, NoError, LastHeader(mem[calls[t].rcv]))
    /\ UNCHANGED <<mem, allocs>>
    /\ UNCHANGED syncVars

RetTime(t) ==
    /\ Running(t, "Time")
    /\ Done(t, NoError, Time(mem[calls[t].rcv]))
    /\ UNCHANGED <<mem, allocs>>
    /\ UNCHANGED syncVars

\* a bug: Verify adopts the trusted proposer into the candidate it rejects
RetVerify_Writes(t) ==
    /\ Running(t, "Verify")
    /\ Done(t, Verify(mem[calls[t].rcv], mem[calls[t].arg]), 0)
    /\ mem' = [mem EXCEPT ![calls[t].arg].ProposerAddress =
                              mem[calls[t].rcv].ProposerAddress]
    /\ UNCHANGED allocs
    /\ UNCHANGED syncVars

RetVerify(t) ==
    /\ Running(t, "Verify")
    /\ Done(t, Verify(mem[calls[t].rcv], mem[calls[t].arg]), 0)
    /\ UNCHANGED <<mem, allocs>>
    /\ UNCHANGED syncVars

RetValidate(t) ==
    /\ Running(t, "Validate")
    /\ Done(t, Validate(mem[calls[t].rcv]), 0)
    /\ UNCHANGED <<mem, allocs>>
    /\ UNCHANGED syncVars

RetValidateBasic(t) ==
    /\ Running(t, "ValidateBasic")
    /\ Done(t, ValidateBasic(mem[calls[t].rcv]), 0)
    /\ UNCHANGED <<mem, allocs>>
    /\ UNCHANGED syncVars

RetMakeCometBFTVote(t) ==
    /\ Running(t, "MakeCometBFTVote")
    /\ Done(t, NoError, MakeCometBFTVote(mem[calls[t].rcv]))
    /\ UNCHANGED <<mem, allocs>>
    /\ UNCHANGED syncVars

SyncOff ==
    /\ trusted = ZeroHeader
    /\ genesis = ZeroHeader
    /\ cand = ZeroHeader
    /\ pc = "off"

\* one caller, every input heap
Init ==
    /\ mem \in Heaps
    /\ allocs = 0
    /\ calls = [t \in {1} |-> Idle]
    /\ SyncOff

\* two concurrent callers sharing one heap
InitConc ==
    /\ mem \in ConcHeaps
    /\ allocs = 0
    /\ calls = [t \in Threads |-> Idle]
    /\ SyncOff

Next ==
    \/ \E t \in DOMAIN calls : Call(t)
    \/ \E t \in DOMAIN calls : RetNew(t)
    \/ \E t \in DOMAIN calls : RetIsZero(t)
    \/ \E t \in DOMAIN calls : RetChainID(t)
    \/ \E t \in DOMAIN calls : RetHeight(t)
    \/ \E t \in DOMAIN calls : RetLastHeader(t)
    \/ \E t \in DOMAIN calls : RetTime(t)
    \/ \E t \in DOMAIN calls : RetVerify(t)
    \/ \E t \in DOMAIN calls : RetValidate(t)
    \/ \E t \in DOMAIN calls : RetValidateBasic(t)
    \/ \E t \in DOMAIN calls : RetMakeCometBFTVote(t)

Spec == Init /\ [][Next]_vars

SpecConc == InitConc /\ [][Next]_vars

\* two callers of the vote encoder, every pair of vote inputs
InitVote ==
    /\ mem \in VoteHeaps
    /\ allocs = 0
    /\ calls = [t \in Threads |-> Idle]
    /\ SyncOff

NextVote ==
    \/ \E t \in DOMAIN calls : CallVote(t)
    \/ \E t \in DOMAIN calls : RetMakeCometBFTVote(t)

SpecVote == InitVote /\ [][NextVote]_vars

(***************************************************************************)
(* The trust-advancement loop of the header-sync engine: each candidate    *)
(* received is checked with ValidateBasic, then with Verify against the    *)
(* trusted head, and replaces the trusted head when both succeed.          *)
(***************************************************************************)
\* the initial trusted headers: height 2, every address
Anchors == {TrustedOf(a) : a \in Addrs}

\* the candidates the network may deliver on the chain of anchor g: below,
\* at or above its height, every address
CandidatesFor(g) ==
    {CandidateOf(g, k[1], k[2], a) : k \in Continuations, a \in Addrs}

InitSync ==
    /\ mem = << >>
    /\ allocs = 0
    /\ calls = << >>
    /\ trusted \in Anchors
    /\ genesis = trusted
    /\ cand = ZeroHeader
    /\ pc = "receive"

Receive ==
    /\ pc = "receive"
    /\ cand' \in CandidatesFor(genesis)
    /\ pc' = "validate"
    /\ UNCHANGED <<trusted, genesis>>
    /\ UNCHANGED callVars

\* ValidateBasic(candidate); a malformed candidate is discarded
SyncValidate ==
    /\ pc = "validate"
    /\ pc' = IF ValidateBasic(cand) = NoError THEN "verify" ELSE "receive"
    /\ UNCHANGED <<trusted, genesis, cand>>
    /\ UNCHANGED callVars

\* Verify(trusted, candidate); on success the candidate becomes the head
SyncVerify ==
    /\ pc = "verify"
    /\ trusted' = IF Verify(trusted, cand) = NoError THEN cand ELSE trusted
    /\ pc' = "receive"
    /\ UNCHANGED <<genesis, cand>>
    /\ UNCHANGED callVars

NextSync == Receive \/ SyncValidate \/ SyncVerify

SpecSync == InitSync /\ [][NextSync]_vars

(***************************************************************************)
(* Properties.                                                             *)
(***************************************************************************)
\* the completed calls of method op
DoneCalls(op) ==
    {calls[t] : t \in {x \in DOMAIN calls :
                          calls[x].st = "done" /\ calls[x].op = op}}

\* C1: ValidateBasic fails with the missing-proposer-address error exactly
\* when the ProposerAddress has length 0 (nil or empty), and succeeds for
\* every non-empty address whatever the other fields hold.
C1_ValidateBasicIffEmpty ==
    \A c \in DoneCalls("ValidateBasic") :
        /\ (c.err = ErrNoProposerAddress) <=> (Len(c.h.ProposerAddress.b) = 0)
        /\ (Len(c.h.ProposerAddress.b) > 0) => (c.err = NoError)

\* C1 witness: an empty, non-nil address was rejected
C1_Witness ==
    \E c \in DoneCalls("ValidateBasic") :
        /\ c.h.ProposerAddress = Slice(<< >>)
        /\ c.err = ErrNoProposerAddress

\* C2: Verify fails with a proposer-mismatch VerifyError exactly when the
\* two ProposerAddress byte sequences differ, and succeeds when they are
\* equal whatever the heights, hashes and times.
C2_VerifyIffProposerDiffers ==
    \A c \in DoneCalls("Verify") :
        /\ (c.err.kind = "VerifyError") <=>
               (c.h.ProposerAddress.b # c.u.ProposerAddress.b)
        /\ (c.h.ProposerAddress.b = c.u.ProposerAddress.b) => (c.err = NoError)

\* C2 witness: Verify succeeded for a candidate that is not above the
\* trusted header and does not link to it
C2_Witness ==
    \E c \in DoneCalls("Verify") :
        /\ c.err = NoError
        /\ c.rcv # c.arg
        /\ Len(c.h.ProposerAddress.b) > 0
        /\ c.u.BaseHeader.Height < c.h.BaseHeader.Height
        /\ c.u.BaseHeader.Time < c.h.BaseHeader.Time
        /\ c.u.LastHeaderHash # Hash(c.h)

\* the value of a hex digit
HexVal(d) == (CHOOSE i \in 1..16 : HexDigits[i] = d) - 1

\* the bytes a sequence of hex digits spells
RECURSIVE ParseHex(_)
ParseHex(s) ==
    IF Len(s) < 2 THEN << >>
    ELSE <<16 * HexVal(s[1]) + HexVal(s[2])>> \o ParseHex(SubSeq(s, 3, Len(s)))

\* where the ") got (" piece of a VerifyError message stands
GotIdx(r) == CHOOSE i \in 1..Len(r) : r[i] = ") got ("

\* C3: a failed Verify returns an error whose message names the trusted
\* header's ProposerAddress as expected and the candidate's as received,
\* each in full.
C3_ErrorCarriesBothAddresses ==
    \A c \in DoneCalls("Verify") :
        c.err # NoError =>
            LET r == c.err.reason
            IN  /\ r[1] = "expected proposer ("
                /\ r[Len(r)] = ")"
                /\ \E i \in 1..Len(r) : r[i] = ") got ("
                /\ Len(r) = 3 + 2 * Len(c.h.ProposerAddress.b)
                              + 2 * Len(c.u.ProposerAddress.b)
                /\ ParseHex(SubSeq(r, 2, GotIdx(r) - 1)) = c.h.ProposerAddress.b
                /\ ParseHex(SubSeq(r, GotIdx(r) + 1, Len(r) - 1))
                       = c.u.ProposerAddress.b

\* C3 witness: a mismatch of two non-empty addresses of different lengths
C3_Witness ==
    \E c \in DoneCalls("Verify") :
        /\ c.err.kind = "VerifyError"
        /\ Len(c.h.ProposerAddress.b) = 2
        /\ Len(c.u.ProposerAddress.b) = 1

\* C4: the vote MakeCometBFTVote encodes is a precommit of height h.Height,
\* round 0, block id {h.Hash(), empty part-set header}, timestamp h.Time(),
\* validator address h.ProposerAddress, validator index 0, encoded under
\* chain id h.ChainID, for every Height and Time.
C4_VoteFields ==
    \A c \in DoneCalls("MakeCometBFTVote") :
        /\ c.val.vote.Type = PrecommitType
        /\ c.val.vote.Height = c.h.BaseHeader.Height
        /\ c.val.vote.Round = 0
        /\ c.val.vote.BlockID.Hash = Hash(c.h)
        /\ c.val.vote.BlockID.PartSetHeader = ZeroPartSetHeader
        /\ c.val.vote.Timestamp = Time(c.h)
        /\ c.val.vote.ValidatorAddress = c.h.ProposerAddress
        /\ c.val.vote.ValidatorIndex = 0
        /\ c.val.signBytes = VoteSignBytes(c.h.BaseHeader.ChainID, c.val.vote)

\* two Headers differ in Height, in ProposerAddress bytes or in content hash
Differ(g, h) ==
    \/ g.BaseHeader.Height # h.BaseHeader.Height
    \/ g.ProposerAddress.b # h.ProposerAddress.b
    \/ Hash(g) # Hash(h)

EpochPlus(t) == [sec |-> t \div NanosPerSec, nsec |-> t % NanosPerSec]

\* C6 as stated: for every Time t, Time() is the epoch plus t nanoseconds.
C6_TimeExactForEveryT ==
    \A c \in DoneCalls("Time") : c.val = EpochPlus(c.h.BaseHeader.Time)

\* C6 amended: for every Time t in the signed range (t < 2^(WordBits-1)),
\* Time() is the epoch plus t nanoseconds.
C6_TimeExactInSignedRange ==
    \A c \in DoneCalls("Time") :
        c.h.BaseHeader.Time < HalfWord => c.val = EpochPlus(c.h.BaseHeader.Time)

\* C6 witness: Time() of the largest Time of the signed range
C6_Witness ==
    \E c \in DoneCalls("Time") :
        /\ c.h.BaseHeader.Time = HalfWord - 1
        /\ c.val = EpochPlus(HalfWord - 1)

\* what the call would return run alone on the Headers it was given
Alone(c) ==
    CASE c.op = "IsZero"           -> c.val = IsZero(c.rcv)
      [] c.op = "ChainID"          -> c.val = ChainID(c.h)
      [] c.op = "Height"           -> c.val = Height(c.h)
      [] c.op = "LastHeader"       -> c.val = LastHeader(c.h)
      [] c.op = "Time"             -> c.val = Time(c.h)
      [] c.op = "Verify"           -> c.err = Verify(c.h, c.u)
      [] c.op = "Validate"         -> c.err = Validate(c.h)
      [] c.op = "ValidateBasic"    -> c.err = ValidateBasic(c.h)
      [] c.op = "MakeCometBFTVote" -> c.val = MakeCometBFTVote(c.h)
      [] OTHER                     -> TRUE

\* C7: no step changes a field of a Header of the heap, and under every
\* interleaving each completed call has returned what it returns run alone
\* on the Headers it was given.
C7_FrameAndIsolation ==
    [][/\ \A p \in DOMAIN mem : mem'[p] = mem[p]
       /\ \A t \in DOMAIN calls : calls'[t].st = "done" => Alone(calls'[t])]_vars

\* C7 witness: ValidateBasic was called on the candidate while a Verify of
\* that candidate was in progress, and both have returned
C7_Witness ==
    /\ DOMAIN calls = Threads
    /\ calls[1].st = "done" /\ calls[1].op = "Verify"
    /\ calls[1].err.kind = "VerifyError"
    /\ calls[2].st = "done" /\ calls[2].op = "ValidateBasic"
    /\ calls[2].conc
    /\ calls[2].rcv = calls[1].arg

\* C8: along the trust-advancement loop the trusted head's ProposerAddress
\* stays byte-equal to the initial trusted header's.
C8_ProposerNeverRotates ==
    pc # "off" => trusted.ProposerAddress.b = genesis.ProposerAddress.b

\* C8 witness: a candidate was accepted and the trusted head's Height went
\* down
C8_Witness ==
    /\ pc # "off"
    /\ trusted # genesis
    /\ trusted.BaseHeader.Height < genesis.BaseHeader.Height

\* C9: when the trusted header passes ValidateBasic and Verify succeeds,
\* the candidate passes ValidateBasic.
C9_VerifyPreservesValidity ==
    \A c \in DoneCalls("Verify") :
        (c.err = NoError /\ ValidateBasic(c.h) = NoError)
            => ValidateBasic(c.u) = NoError

\* C9 witness: Verify succeeded on a nil and an empty address, and the
\* candidate fails ValidateBasic
C9_Witness ==
    \E c \in DoneCalls("Verify") :
        /\ c.err = NoError
        /\ c.h.ProposerAddress = NilSlice
        /\ c.u.ProposerAddress = Slice(<< >>)
        /\ ValidateBasic(c.u) = ErrNoProposerAddress

\* C10: Validate returns the outcome of ValidateBasic, and the Header New
\* returns is non-nil, zero-valued and fails both.
C10_ValidateIsValidateBasic ==
    /\ \A c \in DoneCalls("Validate") : c.err = ValidateBasic(c.h)
    /\ \A c \in DoneCalls("New") :
           /\ ~IsZero(c.val)
           /\ c.val \in DOMAIN mem
           /\ mem[c.val] = ZeroHeader
           /\ Validate(mem[c.val]) = ErrNoProposerAddress
           /\ ValidateBasic(mem[c.val]) = ErrNoProposerAddress

\* C10 witness: Validate was called on a Header allocated by New
C10_Witness ==
    \E c \in DoneCalls("Validate") :
        /\ c.h = ZeroHeader
        /\ c.err = ErrNoProposerAddress

====
